---- MODULE Spec2Model ----
(***************************************************************************)
(* Model of the operator OBJECT_OT_scale_to_vertex_distance of              *)
(* VertiScale.py: execute, invoke, the dialog that invoke opens, and the    *)
(* object transform they read and write.                                    *)
(*                                                                          *)
(* Numbers are exact rationals <<n, d>> in lowest terms with d > 0, so the  *)
(* model states the algebra of the code; float rounding is not modelled.    *)
(* Vectors are triples of rationals, matrices are affine maps              *)
(* [lin |-> 3x3, tr |-> vector] as mathutils' 4x4 matrices act on points.   *)
(*                                                                          *)
(* The host's state (active object, mode, selection, the object's rotation  *)
(* and its parent) is chosen in Init and kept: within a behaviour only the  *)
(* operator acts, writing obj.scale, obj.location and its own property.     *)
(***************************************************************************)
EXTENDS Integers, Sequences, FiniteSets, TLC

VARIABLES
    activeType,       \* type of context.active_object, "NONE" when there is none
    mode,             \* context.mode
    selected,         \* indices of the mesh vertices with v.select
    location,         \* obj.location
    scale,            \* obj.scale
    rotation,         \* rotation part of the object's basis matrix (never written)
    hasParent,        \* obj.parent is set
    parentWorld,      \* obj.parent.matrix_world
    parentInverse,    \* obj.matrix_parent_inverse
    target_distance,  \* the operator property self.target_distance
    pc,               \* "idle", or "dialog" while invoke's dialog is open
    edited,           \* the user changed the dialog's field
    reports,          \* what self.report emitted on the current path
    ret,              \* what the last handler returned ("EXCEPTION": it raised)
    lastOp,           \* the last step of the operator: none, invoke, execute, dismiss
    viaDialog,        \* the last execute was the dialog's confirmation
    pre,              \* location and scale when the current path started
    execRet,          \* what the most recent execute returned
    nops              \* number of execute calls so far

vars == <<activeType, mode, selected, location, scale, rotation, hasParent,
          parentWorld, parentInverse, target_distance, pc, edited, reports,
          ret, lastOp, viaDialog, pre, execRet, nops>>

----------------------------------------------------------------------------
(* Exact rational arithmetic.                                              *)

RECURSIVE GCD(_, _)
GCD(a, b) == IF b = 0 THEN a ELSE GCD(b, a % b)

Abs(x) == IF x < 0 THEN -x ELSE x

\* n/d in lowest terms, d # 0
Rat(n, d) ==
    LET g == GCD(Abs(n), Abs(d))
        s == IF d < 0 THEN -1 ELSE 1
    IN  <<s * (n \div g), s * (d \div g)>>

RInt(n) == <<n, 1>>
Zero == RInt(0)
One == RInt(1)

RNeg(a) == <<-a[1], a[2]>>

RAdd(a, b) ==
    IF a[1] = 0 THEN b
    ELSE IF b[1] = 0 THEN a
    ELSE IF a[2] = 1 /\ b[2] = 1 THEN <<a[1] + b[1], 1>>
    ELSE LET g == GCD(a[2], b[2])
         IN  Rat(a[1] * (b[2] \div g) + b[1] * (a[2] \div g), (a[2] \div g) * b[2])

RSub(a, b) == RAdd(a, RNeg(b))

\* cross-reduced before multiplying, so only the result's size matters
RMul(a, b) ==
    IF a[1] = 0 \/ b[1] = 0 THEN Zero
    ELSE IF a[2] = 1 /\ b[2] = 1 THEN <<a[1] * b[1], 1>>
    ELSE LET g1 == GCD(Abs(a[1]), b[2])
             g2 == GCD(Abs(b[1]), a[2])
         IN  <<(a[1] \div g1) * (b[1] \div g2), (a[2] \div g2) * (b[2] \div g1)>>

\* b # 0
RInv(b) == IF b[1] < 0 THEN <<-b[2], -b[1]>> ELSE <<b[2], b[1]>>

RDiv(a, b) == RMul(a, RInv(b))

RAbs(a) == <<Abs(a[1]), a[2]>>

\* a/b < c/d for b, d > 0, by integer parts and then the reciprocals of the
\* fractional parts (no products, so no overflow)
RECURSIVE FracLt(_, _, _, _)
FracLt(a, b, c, d) ==
    LET qa == a \div b
        qc == c \div d
        ra == a % b
        rc == c % d
    IN  IF qa # qc THEN qa < qc
        ELSE IF rc = 0 THEN FALSE
        ELSE IF ra = 0 THEN TRUE
        ELSE FracLt(d, rc, b, ra)

RLt(a, b) == FracLt(a[1], a[2], b[1], b[2])
RLe(a, b) == ~RLt(b, a)

RMax(a, b) == IF RLt(a, b) THEN b ELSE a

RECURSIVE SqrtFrom(_, _)
SqrtFrom(n, k) == IF (k + 1) * (k + 1) > n THEN k ELSE SqrtFrom(n, k + 1)

\* the square root of a rational that is the square of a rational
RSqrt(a) == <<SqrtFrom(a[1], 0), SqrtFrom(a[2], 0)>>

----------------------------------------------------------------------------
(* mathutils.Vector and mathutils.Matrix.                                  *)

Vec(x, y, z) == <<RInt(x), RInt(y), RInt(z)>>

\* the function f on 1..3 as the tuple <<f[1], f[2], f[3]>>
Tuple(f) == f \o <<>>

VAdd(u, v) == Tuple([i \in 1..3 |-> RAdd(u[i], v[i])])
VSub(u, v) == Tuple([i \in 1..3 |-> RSub(u[i], v[i])])
VScale(u, k) == Tuple([i \in 1..3 |-> RMul(u[i], k)])

\* u[i] * v[i] + ... + u[3] * v[3]
RECURSIVE DotFrom(_, _, _)
DotFrom(u, v, i) ==
    IF i > 3 THEN Zero ELSE RAdd(RMul(u[i], v[i]), DotFrom(u, v, i + 1))

Dot(u, v) == DotFrom(u, v, 1)

\* the largest of |v[i]|, ..., |v[3]|
RECURSIVE MaxAbsFrom(_, _)
MaxAbsFrom(v, i) ==
    IF i = 3 THEN RAbs(v[3]) ELSE RMax(RAbs(v[i]), MaxAbsFrom(v, i + 1))

\* Vector.length, sqrt(x^2 + y^2 + z^2), evaluated as m * |v / m| with m the
\* largest component in absolute value
Length(v) ==
    LET m == MaxAbsFrom(v, 1)
    IN  IF m = Zero THEN Zero
        ELSE LET w == VScale(v, RInv(m))
             IN  RMul(m, RSqrt(Dot(w, w)))

\* linear part times vector
LinApply(L, v) == Tuple([i \in 1..3 |-> Dot(L[i], v)])

\* column j of a linear part
Col(B, j) == Tuple([i \in 1..3 |-> B[i][j]])

LinMul(A, B) ==
    Tuple([i \in 1..3 |-> Tuple([j \in 1..3 |-> Dot(A[i], Col(B, j))])])

\* Matrix @ Vector for a point
Apply(M, v) == VAdd(LinApply(M.lin, v), M.tr)

\* Matrix @ Matrix
Compose(A, B) == [lin |-> LinMul(A.lin, B.lin), tr |-> Apply(A, B.tr)]

\* the index after i, cyclically in 1..3
Nx(i) == (i % 3) + 1

\* the cofactor of L[j][i]
Cofactor(L, j, i) ==
    RSub(RMul(L[Nx(j)][Nx(i)], L[Nx(Nx(j))][Nx(Nx(i))]),
         RMul(L[Nx(j)][Nx(Nx(i))], L[Nx(Nx(j))][Nx(i)]))

\* the determinant, expanded along the first row
Det(L) == Dot(L[1], Tuple([i \in 1..3 |-> Cofactor(L, 1, i)]))

\* Matrix.inverted() succeeds exactly when the determinant is not zero
Invertible(M) == Det(M.lin) # Zero

\* Matrix.inverted(), for an invertible matrix: adjugate over determinant
Inverted(M) ==
    LET L == M.lin
        d == Det(L)
        inv == Tuple([i \in 1..3 |->
                   Tuple([j \in 1..3 |-> RDiv(Cofactor(L, j, i), d)])])
    IN  [lin |-> inv, tr |-> VScale(LinApply(inv, M.tr), RInt(-1))]

Diag(s) ==
    Tuple([i \in 1..3 |-> Tuple([j \in 1..3 |-> IF i = j THEN s[i] ELSE Zero])])

IdentityLin == Diag(Vec(1, 1, 1))
Identity == [lin |-> IdentityLin, tr |-> Vec(0, 0, 0)]

\* a quarter turn about the z axis
RotZ90 == <<Vec(0, -1, 0), Vec(1, 0, 0), Vec(0, 0, 1)>>

----------------------------------------------------------------------------
(* The host's data: the mesh, the requests, the object's world matrix.      *)

\* bound on the number of execute calls in a behaviour
MaxOps == 2

\* bm.verts, in index order: local coordinates (2 and 3 are doubles)
Verts == <<Vec(0, 0, 0), Vec(2, 0, 0), Vec(2, 0, 0)>>

\* a target within 1e-6 relative, but 1.5e-6 absolute, of the distance 2
NearTwo == Rat(4000003, 2000000)

\* the target distances a caller or the dialog's user asks for
Requested == {RInt(-1), Zero, One, RInt(2), NearTwo}

\* FloatProperty(min=0): a value below the minimum is stored as the minimum
TargetProperty(x) == IF RLt(x, Zero) THEN Zero ELSE x

\* the object's own matrix: translation, rotation and scale
Basis(loc, sc) == [lin |-> LinMul(rotation, Diag(sc)), tr |-> loc]

\* obj.matrix_world for a location and a scale of the object: the host
\* evaluates parent.matrix_world @ matrix_parent_inverse @ basis
MatrixWorld(loc, sc) ==
    IF hasParent
    THEN Compose(Compose(parentWorld, parentInverse), Basis(loc, sc))
    ELSE Basis(loc, sc)

RECURSIVE Sorted(_)
Sorted(S) ==
    IF S = {} THEN <<>>
    ELSE LET m == CHOOSE x \in S : \A y \in S : x <= y
         IN  <<m>> \o Sorted(S \ {m})

\* [v for v in bm.verts if v.select], as indices
SelectedVerts(sel) == Sorted(sel)

\* the world images of the first two selected vertices under matrix_world mw
v1_world(sel, mw) == Apply(mw, Verts[SelectedVerts(sel)[1]])
v2_world(sel, mw) == Apply(mw, Verts[SelectedVerts(sel)[2]])

current_distance(sel, mw) == Length(VSub(v1_world(sel, mw), v2_world(sel, mw)))

Pivot(sel, mw) == VScale(VAdd(v1_world(sel, mw), v2_world(sel, mw)), Rat(1, 2))

----------------------------------------------------------------------------
(* execute and invoke.                                                      *)

Report(kind, msg, args) == [type |-> kind, msg |-> msg, args |-> args]

NotMesh == Report("ERROR", "Active object is not a mesh", <<>>)
NotEdit == Report("ERROR", "Must be in Edit Mode", <<>>)
NotTwo == Report("ERROR", "Select exactly two vertices", <<>>)
SameLocation == Report("ERROR", "Selected vertices are at the same location", <<>>)
NoScaling == Report("INFO", "No scaling needed", <<>>)
Scaled == Report("INFO", "Object scaled successfully", <<>>)

min_target_distance == Rat(1, 1000000)

Clamped ==
    Report("WARNING", "Target distance cannot be 0; using minimum value",
           <<min_target_distance>>)

\* what a handler leaves: its return value, its reports, the object's transform
Outcome(r, reps, loc, sc) ==
    [ret |-> r, reports |-> reps, location |-> loc, scale |-> sc]

CancelSilently(err, loc, sc) == Outcome("CANCELLED", <<>>, loc, sc)

\* report an error and return CANCELLED
Cancel(err, loc, sc) == Outcome("CANCELLED", <<err>>, loc, sc)

IsMesh(type) == type = "MESH"
InEditMode(md) == md = "EDIT_MESH"

TwoSelectedAtLeast(sel) == Cardinality(sel) >= 2

TwoSelected(sel) == Cardinality(sel) = 2

\* no check failed
Passed == Report("NONE", "", <<>>)

ExecuteChecksModeFirst(type, md, sel) ==
    IF ~InEditMode(md) THEN NotEdit
    ELSE IF ~IsMesh(type) THEN NotMesh
    ELSE IF ~TwoSelected(sel) THEN NotTwo
    ELSE Passed

\* lines 30-45: the error of the first check of execute that fails
ExecuteChecks(type, md, sel) ==
    IF ~IsMesh(type) THEN NotMesh
    ELSE IF ~InEditMode(md) THEN NotEdit
    ELSE IF ~TwoSelected(sel) THEN NotTwo
    ELSE Passed

\* lines 92-106: the error of the first check of invoke that fails
InvokeChecks(type, md, sel) ==
    IF ~IsMesh(type) THEN NotMesh
    ELSE IF ~InEditMode(md) THEN NotEdit
    ELSE IF ~TwoSelected(sel) THEN NotTwo
    ELSE Passed

effective_target_distance(t) ==
    IF RLe(t, Zero) THEN min_target_distance ELSE t

ClampReports(t) == IF RLe(t, Zero) THEN <<Clamped>> ELSE <<>>

scale_factor_inverted(t, cur) == RDiv(cur, effective_target_distance(t))

scale_factor(t, cur) == RDiv(effective_target_distance(t), cur)

NoScalingNeededFlipped(sf) == RLt(Rat(1, 1000000), RAbs(RSub(sf, One)))

NoScalingNeeded(sf) == RLt(RAbs(RSub(sf, One)), Rat(1, 1000000))

new_world_loc(pivot, old, sf) == VAdd(pivot, VScale(VSub(old, pivot), sf))

\* lines 72-89: the rescale about the pivot
ApplyScale(sel, loc, sc, t, mw, sf) ==
    LET nwl == new_world_loc(Pivot(sel, mw), mw.tr, sf)
        nsc == VScale(sc, sf)
    IN  IF hasParent
        THEN IF Invertible(parentWorld)
             THEN Outcome("FINISHED", ClampReports(t) \o <<Scaled>>,
                          Apply(Inverted(parentWorld), nwl), nsc)
             ELSE \* inverted() raises after obj.scale was written
                  Outcome("EXCEPTION", ClampReports(t), loc, nsc)
        ELSE Outcome("FINISHED", ClampReports(t) \o <<Scaled>>, nwl, nsc)

\* execute(self, context) with self.target_distance = t
Execute(type, md, sel, loc, sc, t) ==
    IF ExecuteChecks(type, md, sel) # Passed
    THEN Cancel(ExecuteChecks(type, md, sel), loc, sc)
    ELSE LET mw == MatrixWorld(loc, sc)
             cur == current_distance(sel, mw)
             sf == scale_factor(t, cur)
         IN  IF cur = Zero THEN Cancel(SameLocation, loc, sc)
             ELSE IF NoScalingNeeded(sf)
                  THEN Outcome("FINISHED", ClampReports(t) \o <<NoScaling>>, loc, sc)
             ELSE ApplyScale(sel, loc, sc, t, mw, sf)

PrefillDefault(cur) == One

\* the value invoke writes into the dialog's field
Prefill(cur) == TargetProperty(cur)

\* invoke(self, context, event): the outcome and the new self.target_distance
Invoke(type, md, sel, loc, sc, t) ==
    IF InvokeChecks(type, md, sel) # Passed
    THEN [out |-> Cancel(InvokeChecks(type, md, sel), loc, sc), target |-> t]
    ELSE [out |-> Outcome("RUNNING_MODAL", <<>>, loc, sc),
          target |-> Prefill(current_distance(sel, MatrixWorld(loc, sc)))]

----------------------------------------------------------------------------
(* The state machine.                                                       *)

\* a parent scaled by 2 and moved to (1, 0, 0)
ParentMatrix == [lin |-> Diag(Vec(2, 2, 2)), tr |-> Vec(1, 0, 0)]

\* a parent flattened along z: its world matrix has no inverse
FlatParent == [lin |-> Diag(Vec(1, 1, 0)), tr |-> Vec(0, 0, 0)]

\* the parents of the object: none, one with an identity parent-inverse, one
\* whose parent-inverse is the inverse of its world matrix, and a flat one
Parents ==
    { [has |-> FALSE, world |-> Identity, inverse |-> Identity],
      [has |-> TRUE, world |-> ParentMatrix, inverse |-> Identity],
      [has |-> TRUE, world |-> ParentMatrix, inverse |-> Inverted(ParentMatrix)],
      [has |-> TRUE, world |-> FlatParent, inverse |-> Identity] }

\* the object's own transform when the add-on is first used
Objects ==
    { [location |-> Vec(0, 0, 0), rotation |-> IdentityLin, scale |-> Vec(1, 1, 1)],
      [location |-> Vec(1, -1, 2), rotation |-> RotZ90, scale |-> Vec(2, 3, 1)] }

Init ==
    /\ activeType \in {"NONE", "CAMERA", "MESH"}
    /\ mode \in {"OBJECT", "EDIT_MESH"}
    /\ selected \in SUBSET (1..Len(Verts))
    /\ \E o \in Objects :
        /\ location = o.location
        /\ rotation = o.rotation
        /\ scale = o.scale
    /\ \E p \in Parents :
        /\ hasParent = p.has
        /\ parentWorld = p.world
        /\ parentInverse = p.inverse
    /\ target_distance = One
    /\ pc = "idle"
    /\ edited = FALSE
    /\ reports = <<>>
    /\ ret = "NONE"
    /\ execRet = "NONE"
    /\ lastOp = "none"
    /\ viaDialog = FALSE
    /\ pre = [location |-> location, scale |-> scale]
    /\ nops = 0

\* the parts of the state no handler writes
UnchangedHost ==
    UNCHANGED <<activeType, mode, selected, rotation, hasParent, parentWorld,
                parentInverse>>

\* the operator is called through its invoke: from the context menu
InvokeStep ==
    /\ pc = "idle"
    /\ LET r == Invoke(activeType, mode, selected, location, scale, target_distance)
       IN  /\ target_distance' = r.target
           /\ reports' = r.out.reports
           /\ ret' = r.out.ret
           /\ pc' = IF r.out.ret = "RUNNING_MODAL" THEN "dialog" ELSE "idle"
    /\ lastOp' = "invoke"
    /\ edited' = FALSE
    /\ pre' = [location |-> location, scale |-> scale]
    /\ UNCHANGED <<location, scale, viaDialog, nops, execRet>>
    /\ UnchangedHost

\* the user types a target into the dialog's field
DialogEdit(t) ==
    /\ pc = "dialog"
    /\ target_distance' = TargetProperty(t)
    /\ edited' = TRUE
    /\ UNCHANGED <<location, scale, pc, reports, ret, execRet, lastOp, viaDialog,
                   pre, nops>>
    /\ UnchangedHost

\* the state after execute ran with self.target_distance = t, following the
\* reports reps of the same path
Executed(t, reps) ==
    LET r == Execute(activeType, mode, selected, location, scale, t)
    IN  /\ location' = r.location
        /\ scale' = r.scale
        /\ reports' = reps \o r.reports
        /\ ret' = r.ret
        /\ execRet' = r.ret
        /\ lastOp' = "execute"
        /\ pc' = "idle"
        /\ nops' = nops + 1

\* the user confirms the dialog: the host calls execute
DialogConfirm ==
    /\ pc = "dialog"
    /\ nops < MaxOps
    /\ Executed(target_distance, reports)
    /\ viaDialog' = TRUE
    /\ UNCHANGED <<target_distance, edited, pre>>
    /\ UnchangedHost

\* the user dismisses the dialog: no handler of the operator runs
DialogDismiss ==
    /\ pc = "dialog"
    /\ pc' = "idle"
    /\ lastOp' = "dismiss"
    /\ UNCHANGED <<location, scale, target_distance, edited, reports, ret, execRet,
                   viaDialog, pre, nops>>
    /\ UnchangedHost

\* the operator is called without its dialog, with a target distance
ExecuteDirect(t) ==
    /\ pc = "idle"
    /\ nops < MaxOps
    /\ target_distance' = TargetProperty(t)
    /\ Executed(TargetProperty(t), <<>>)
    /\ viaDialog' = FALSE
    /\ edited' = FALSE
    /\ pre' = [location |-> location, scale |-> scale]
    /\ UnchangedHost

Next ==
    \/ InvokeStep
    \/ \E t \in Requested : DialogEdit(t)
    \/ DialogConfirm
    \/ DialogDismiss
    \/ \E t \in Requested : ExecuteDirect(t)

Spec == Init /\ [][Next]_vars

----------------------------------------------------------------------------
(* What the properties below speak of.                                      *)

\* the tolerance of the stated properties, 1e-6
Tolerance == Rat(1, 1000000)

Within(a, b, tol) == RLe(RAbs(RSub(a, b)), tol)

VecWithin(u, v, tol) ==
    /\ Within(u[1], v[1], tol)
    /\ Within(u[2], v[2], tol)
    /\ Within(u[3], v[3], tol)

\* the four preconditions of execute held when the path started
ValidPre ==
    /\ activeType = "MESH"
    /\ mode = "EDIT_MESH"
    /\ Cardinality(selected) = 2
    /\ current_distance(selected, MatrixWorld(pre.location, pre.scale)) # Zero

DistPre == current_distance(selected, MatrixWorld(pre.location, pre.scale))
DistNow == current_distance(selected, MatrixWorld(location, scale))
PivotPre == Pivot(selected, MatrixWorld(pre.location, pre.scale))
PivotNow == Pivot(selected, MatrixWorld(location, scale))

Unchanged == location = pre.location /\ scale = pre.scale

Reported(r) == \E i \in 1..Len(reports) : reports[i] = r

\* the target execute works with, and its scale factor, from the path's start
EffectivePre == IF RLe(target_distance, Zero) THEN Tolerance ELSE target_distance
FactorPre == RDiv(EffectivePre, DistPre)

----------------------------------------------------------------------------
(* C1. Pivot invariance: after every execute that passed its four           *)
(* preconditions, with or without a parent, the world midpoint of the two   *)
(* selected vertices under the updated scale and location is the midpoint   *)
(* from before the operation, within 1e-6.                                  *)
C1_PivotInvariant ==
    (lastOp = "execute" /\ ValidPre) => VecWithin(PivotNow, PivotPre, Tolerance)

(* C2. Target distance achieved: after execute returned FINISHED for a      *)
(* positive target t, the world distance of the two vertices is t within    *)
(* 1e-6 absolute, the runs of the "No scaling needed" branch included.      *)
C2_TargetAchieved ==
    (lastOp = "execute" /\ ValidPre /\ ret = "FINISHED"
        /\ RLt(Zero, target_distance))
    => Within(DistNow, target_distance, Tolerance)

(* C2 as amended: a run that rescaled ends at distance t; a run of the      *)
(* "No scaling needed" branch leaves the distance d as it was, with         *)
(* |t / d - 1| < 1e-6, a relative and not an absolute tolerance.            *)
C2_TargetAchievedOrRelative ==
    (lastOp = "execute" /\ ValidPre /\ ret = "FINISHED"
        /\ RLt(Zero, target_distance))
    => IF Reported(NoScaling)
       THEN /\ DistNow = DistPre
            /\ RLt(RAbs(RSub(RDiv(target_distance, DistPre), One)), Tolerance)
       ELSE DistNow = target_distance

C2_Witness ==
    /\ lastOp = "execute" /\ ValidPre /\ ret = "FINISHED"
    /\ RLt(Zero, target_distance)
    /\ hasParent
    /\ Reported(Scaled)
    /\ DistNow = target_distance
    /\ DistPre # target_distance

(* C3. Atomicity: every execute either applied the scale update and the     *)
(* location update of step 6, or left scale and location as they were.      *)
C3_Atomic ==
    lastOp = "execute" => (Unchanged \/ (ret = "FINISHED" /\ Reported(Scaled)))

(* C4. With n # 2 vertices selected on a mesh in edit mode, execute and     *)
(* invoke fail with the selection error, the report states the count n,     *)
(* and the transform is not changed.                                        *)
C4_CountReported ==
    (lastOp \in {"execute", "invoke"} /\ activeType = "MESH"
        /\ mode = "EDIT_MESH" /\ Cardinality(selected) # 2)
    => /\ ret = "CANCELLED"
       /\ reports = <<Report("ERROR", NotTwo.msg, <<Cardinality(selected)>>)>>
       /\ Unchanged

(* C4 as amended: the report is the fixed text "Select exactly two          *)
(* vertices", with no count in it.                                          *)
C4_SelectionRejected ==
    (lastOp \in {"execute", "invoke"} /\ activeType = "MESH"
        /\ mode = "EDIT_MESH" /\ Cardinality(selected) # 2)
    => /\ ret = "CANCELLED"
       /\ reports = <<NotTwo>>
       /\ NotTwo.args = <<>>
       /\ Unchanged

C4_Witness ==
    /\ lastOp = "execute" /\ activeType = "MESH" /\ mode = "EDIT_MESH"
    /\ Cardinality(selected) = 3
    /\ ret = "CANCELLED"

(* C5. Target clamping: an execute that passes its preconditions with a     *)
(* target <= 0 works with 1e-6, emits the warning, returns FINISHED, and    *)
(* leaves the two vertices 1e-6 apart.                                      *)
C5_Clamp ==
    (lastOp = "execute" /\ ValidPre /\ RLe(target_distance, Zero))
    => /\ Reported(Clamped)
       /\ ret = "FINISHED"
       /\ DistNow = min_target_distance

(* C6. No-op threshold: execute leaves scale and location unchanged and     *)
(* returns FINISHED with an INFO note exactly when the preconditions pass   *)
(* and |effective_target / current_distance - 1| < 1e-6; otherwise, with    *)
(* the preconditions passed, the scale is multiplied by the factor on all   *)
(* three axes and the location is rewritten.                                *)
C6_NoopThreshold ==
    lastOp = "execute" =>
    /\ (Unchanged /\ ret = "FINISHED"
            /\ \E i \in 1..Len(reports) : reports[i].type = "INFO")
       <=> (ValidPre /\ RLt(RAbs(RSub(FactorPre, One)), Tolerance))
    /\ (ValidPre /\ ~RLt(RAbs(RSub(FactorPre, One)), Tolerance))
       => /\ scale = VScale(pre.scale, FactorPre)
          /\ ret = "FINISHED"
          /\ Reported(Scaled)

(* C7. Idempotence: after a successful execute, an execute on the same      *)
(* selection with the target equal to the distance just achieved has a      *)
(* scale factor within 1e-6 of 1 and changes nothing.                       *)
C7_Idempotent ==
    [][(/\ execRet = "FINISHED"
        /\ nops' = nops + 1
        /\ target_distance' = current_distance(selected, MatrixWorld(location, scale)))
       => /\ ret' = "FINISHED"
          /\ location' = location
          /\ scale' = scale
          /\ \E i \in 1..Len(reports') : reports'[i] = NoScaling
          /\ Within(RDiv(target_distance',
                         current_distance(selected, MatrixWorld(location, scale))),
                    One, Tolerance)]_vars

C7_Witness ==
    /\ nops = 2 /\ lastOp = "execute" /\ ret = "FINISHED"
    /\ Reported(NoScaling)
    /\ target_distance = DistNow
    /\ \A o \in Objects : scale # o.scale

(* C8. Pre-fill then accept: the dialog opens with the measured world       *)
(* distance in its field, and confirming it unchanged is a no-op success    *)
(* for every selection of two vertices, coincident ones included.           *)
C8_PrefillAccept ==
    /\ (pc = "dialog" /\ ~edited) => target_distance = DistNow
    /\ (lastOp = "execute" /\ viaDialog /\ ~edited)
       => (ret = "FINISHED" /\ Reported(NoScaling) /\ Unchanged)

(* C8 as amended: confirming the default is a no-op success when the two    *)
(* world images differ; when they coincide the field holds 0 and execute    *)
(* fails with the same-location error, changing nothing.                    *)
C8_PrefillAcceptDistinct ==
    /\ (pc = "dialog" /\ ~edited) => target_distance = DistNow
    /\ (lastOp = "execute" /\ viaDialog /\ ~edited)
       => IF DistPre # Zero
          THEN ret = "FINISHED" /\ reports = <<NoScaling>> /\ Unchanged
               /\ Within(FactorPre, One, Tolerance)
          ELSE ret = "CANCELLED" /\ reports = <<SameLocation>> /\ Unchanged
               /\ target_distance = Zero

C8_Witness ==
    /\ lastOp = "execute" /\ viaDialog /\ ~edited
    /\ ret = "FINISHED" /\ reports = <<NoScaling>>
    /\ DistPre # One
    /\ target_distance = DistPre

(* C9. Every path through the operator that ends without a change of the   *)
(* transform has emitted at least one report.                               *)
C9_AlwaysReported ==
    (pc = "idle" /\ lastOp # "none" /\ Unchanged) => reports # <<>>

(* C9 as amended: every path that ends in invoke or execute without a       *)
(* change has reported why; a dismissed dialog ends with no change and no   *)
(* report.                                                                  *)
C9_ReportedUnlessDismissed ==
    /\ (pc = "idle" /\ lastOp \in {"invoke", "execute"} /\ Unchanged)
       => /\ reports # <<>>
          /\ \E r \in {NotMesh, NotEdit, NotTwo, SameLocation, NoScaling} :
                Reported(r)
    /\ lastOp = "dismiss" => (Unchanged /\ reports = <<>>)

C9_Witness ==
    /\ pc = "idle" /\ lastOp = "execute" /\ viaDialog /\ edited
    /\ Unchanged
    /\ reports = <<SameLocation>>

\* the error of the first check that fails, in the stated order
FirstViolated ==
    IF activeType # "MESH" THEN NotMesh
    ELSE IF mode # "EDIT_MESH" THEN NotEdit
    ELSE IF Cardinality(selected) # 2 THEN NotTwo
    ELSE IF DistPre = Zero THEN SameLocation
    ELSE Passed

====
